---- MODULE Spec2Model ----
(***************************************************************************)
(* Model of save.py: the table pipeline of parse_table                     *)
(* (fill_empty_class_codes, convert_period_for_sql, extract_time_and_day). *)
(*                                                                         *)
(* Text is a sequence of one-character strings, so that str.lower, the     *)
(* substring test and the regular expressions are computed on characters.  *)
(* A missing value (None / NaN) is the value NaN, distinct from the empty  *)
(* text <<>>.                                                              *)
(***************************************************************************)
EXTENDS Integers, Sequences, FiniteSets, TLC

VARIABLES
    pc,       \* where the run stands
    status,   \* "ok", or the exception that ended the run
    html,     \* the header labels and the rows of cell texts of one HTML table
    df0,      \* the table as it was handed over
    df,       \* the table being worked on
    inp,      \* what input() returns when the user is asked
    cell,         \* the text of one cell of the period column
    time_val,     \* extract_time(cell)
    day_num,      \* extract_day(cell)
    start_time,   \* extract_start_end_times(cell), first
    end_time,     \* extract_start_end_times(cell), second
    sql_token     \* convert_to_sql_period(cell)

tableVars == <<html, df0, df, inp>>

cellVars == <<cell, time_val, day_num, start_time, end_time, sql_token>>

vars ==
    <<pc, status, html, df0, df, inp,
      cell, time_val, day_num, start_time, end_time, sql_token>>

-----------------------------------------------------------------------------
(* Bounds *)

MaxRows == 3
MaxLen == 4

-----------------------------------------------------------------------------
(* Text *)

NaN == <<"NaN">>

UpperCase == <<"A","B","C","D","E","F","G","H","I","J","K","L","M",
               "N","O","P","Q","R","S","T","U","V","W","X","Y","Z">>

LowerCase == <<"a","b","c","d","e","f","g","h","i","j","k","l","m",
               "n","o","p","q","r","s","t","u","v","w","x","y","z">>

Digits == <<"0","1","2","3","4","5","6","7","8","9">>

IsDigit(c) == c \in {Digits[k] : k \in 1..10}

DigitVal(c) == (CHOOSE k \in 1..10 : Digits[k] = c) - 1

IsSpace(c) == c \in {" ", "\t", "\n"}

LowerChar(c) ==
    IF \E k \in 1..26 : UpperCase[k] = c
    THEN LowerCase[CHOOSE k \in 1..26 : UpperCase[k] = c]
    ELSE c

Lower(s) == [k \in 1..Len(s) |-> LowerChar(s[k])]

\* sub in s
Contains(sub, s) ==
    \E k \in 0..(Len(s) - Len(sub)) :
        \A j \in 1..Len(sub) : s[k + j] = sub[j]

pd_isna(v) == v = NaN

\* F(x), the argument evaluated once before the call, as Python does
Call(F(_), x) == CHOOSE y \in {F(v) : v \in {x}} : TRUE

IsEmptyCell(v) == pd_isna(v) \/ v = <<>>

-----------------------------------------------------------------------------
(* Column labels and frames *)

StrLabel(s) == [kind |-> "str", s |-> s, n |-> 0]

IntLabel(n) == [kind |-> "int", s |-> <<>>, n |-> n]

NoneLabel == [kind |-> "none", s |-> <<>>, n |-> 0]

\* Python truth value of a column label
Truthy(lab) ==
    CASE lab.kind = "str" -> lab.s # <<>>
      [] lab.kind = "int" -> lab.n # 0
      [] OTHER -> FALSE

RangeIndex(n) == [k \in 1..n |-> k - 1]

Position(seq, x) == CHOOSE k \in 1..Len(seq) : seq[k] = x

InSeq(seq, x) == \E k \in 1..Len(seq) : seq[k] = x

\* series[col] for a row taken with df.iloc[i]
RowGet(frame, row, col) == row[Position(frame.columns, col)]

\* df.iloc[i], i counted from 0
Iloc(frame, i) == frame.rows[i + 1]

\* df.at[label, col] = v; a label that is not in the index enlarges the frame
At(frame, label, col, v) ==
    LET nc == Len(frame.columns)
        c  == Position(frame.columns, col)
    IN  IF InSeq(frame.index, label)
        THEN [frame EXCEPT !.rows[Position(frame.index, label)][c] = v]
        ELSE [frame EXCEPT
                !.index = Append(frame.index, label),
                !.rows  = Append(frame.rows,
                                 [k \in 1..nc |-> IF k = c THEN v ELSE NaN])]

-----------------------------------------------------------------------------
(* fill_empty_class_codes *)

potential_names ==
    << <<"c","l","a","s","s"," ","c","o","d","e">>,
       <<"c","l","a","s","s","c","o","d","e">>,
       <<"c","l","a","s","s","_","c","o","d","e">>,
       <<"c","o","d","e">>,
       <<"c","o","u","r","s","e"," ","c","o","d","e">>,
       <<"c","o","u","r","s","e","c","o","d","e">> >>

NameMatches(lab) ==
    \E k \in 1..Len(potential_names) : Contains(potential_names[k], Lower(lab.s))

\* the loop over df.columns; col.lower() exists for text labels only
RECURSIVE FindClassCodeCol(_, _)
FindClassCodeCol(columns, k) ==
    IF k > Len(columns) THEN [status |-> "ok", col |-> NoneLabel]
    ELSE IF columns[k].kind # "str" THEN [status |-> "AttributeError", col |-> NoneLabel]
    ELSE IF NameMatches(columns[k]) THEN [status |-> "ok", col |-> columns[k]]
    ELSE FindClassCodeCol(columns, k + 1)

\* what input() gives: a line of text, or end of input
EOF == [kind |-> "eof", text |-> <<>>]

Line(t) == [kind |-> "line", text |-> t]

RECURSIVE lstrip(_)
lstrip(s) == IF s # <<>> /\ IsSpace(Head(s)) THEN lstrip(Tail(s)) ELSE s

RECURSIVE rstrip(_)
rstrip(s) ==
    IF s # <<>> /\ IsSpace(s[Len(s)]) THEN rstrip(SubSeq(s, 1, Len(s) - 1)) ELSE s

strip(s) == rstrip(lstrip(s))

RECURSIVE DigitsValue(_)
DigitsValue(s) ==
    IF s = <<>> THEN 0
    ELSE 10 * DigitsValue(SubSeq(s, 1, Len(s) - 1)) + DigitVal(s[Len(s)])

AllDigits(s) == s # <<>> /\ \A k \in 1..Len(s) : IsDigit(s[k])

\* int(text): optional sign and decimal digits, surrounding blanks ignored
int_parse(t) ==
    LET s    == strip(t)
        sign == s # <<>> /\ s[1] \in {"-", "+"}
        body == IF sign THEN Tail(s) ELSE s
    IN  IF AllDigits(body)
        THEN [ok |-> TRUE,
              val |-> IF sign /\ s[1] = "-" THEN 0 - DigitsValue(body)
                      ELSE DigitsValue(body)]
        ELSE [ok |-> FALSE, val |-> 0]

\* AskClassCodeCol without the test 0 <= col_idx: a negative index counts from
\* the end of df.columns
AskClassCodeColNoLowerBound(columns, answer) ==
    IF answer.kind = "eof" THEN [status |-> "EOFError", col |-> NoneLabel]
    ELSE LET r == int_parse(answer.text)
         IN  IF r.ok /\ r.val < Len(columns) /\ 0 - r.val <= Len(columns)
             THEN [status |-> "ok",
                   col |-> columns[IF r.val >= 0 THEN r.val + 1
                                   ELSE Len(columns) + r.val + 1]]
             ELSE [status |-> "ok", col |-> NoneLabel]

\* lines 86-97: the question put to the user when no name matched
AskClassCodeCol(columns, answer) ==
    IF answer.kind = "eof" THEN [status |-> "EOFError", col |-> NoneLabel]
    ELSE LET r == int_parse(answer.text)
         IN  IF r.ok /\ 0 <= r.val /\ r.val < Len(columns)
             THEN [status |-> "ok", col |-> columns[r.val + 1]]
             ELSE [status |-> "ok", col |-> NoneLabel]

\* lines 78-97
ResolveClassCodeCol(columns, answer) ==
    LET byName == FindClassCodeCol(columns, 1)
    IN  IF byName.status # "ok" THEN byName
        ELSE IF byName.col = NoneLabel /\ Len(columns) > 0
             THEN AskClassCodeCol(columns, answer)
             ELSE byName

NoRow == [isNone |-> TRUE, vals |-> <<>>]

SomeRow(r) == [isNone |-> FALSE, vals |-> r]

\* lines 115-118: the loop over the columns of row i
RECURSIVE CopyEmptyCells(_, _, _, _)
CopyEmptyCells(frame, i, prev_row, k) ==
    IF k > Len(frame.columns) THEN frame
    ELSE LET col         == frame.columns[k]
             current_val == RowGet(frame, Iloc(frame, i), col)
             next        == IF IsEmptyCell(current_val)
                            THEN At(frame, i, col, RowGet(frame, prev_row.vals, col))
                            ELSE frame
         IN  CopyEmptyCells(next, i, prev_row, k + 1)

\* FillRow writing the grouping cell under the label of the next row
FillRowNextLabel(frame, class_code_col, i, prev_row) ==
    LET current_code == RowGet(frame, Iloc(frame, i), class_code_col)
    IN  IF IsEmptyCell(current_code) /\ ~prev_row.isNone
        THEN CopyEmptyCells(
                 At(frame, i + 1, class_code_col,
                    RowGet(frame, prev_row.vals, class_code_col)),
                 i, prev_row, 1)
        ELSE frame

\* lines 105-121: one iteration of the loop over the rows
FillRow(frame, class_code_col, i, prev_row) ==
    LET current_code == RowGet(frame, Iloc(frame, i), class_code_col)
    IN  IF IsEmptyCell(current_code) /\ ~prev_row.isNone
        THEN CopyEmptyCells(
                 At(frame, i, class_code_col,
                    RowGet(frame, prev_row.vals, class_code_col)),
                 i, prev_row, 1)
        ELSE frame

\* FillGrouped keeping as prev_row the last row whose grouping cell was not
\* empty, as read
RECURSIVE FillGroupedFromHead(_, _, _, _, _)
FillGroupedFromHead(frame, class_code_col, i, n, prev_row) ==
    IF i >= n THEN frame
    ELSE LET raw    == Iloc(frame, i)
             filled == FillRow(frame, class_code_col, i, prev_row)
         IN  FillGroupedFromHead(filled, class_code_col, i + 1, n,
                 IF IsEmptyCell(RowGet(frame, raw, class_code_col))
                 THEN prev_row ELSE SomeRow(raw))

\* FillGrouped taking prev_row before the row is filled
RECURSIVE FillGroupedRawPrev(_, _, _, _, _)
FillGroupedRawPrev(frame, class_code_col, i, n, prev_row) ==
    IF i >= n THEN frame
    ELSE LET filled == FillRow(frame, class_code_col, i, prev_row)
         IN  FillGroupedRawPrev(filled, class_code_col, i + 1, n,
                                SomeRow(Iloc(frame, i)))

\* lines 103-121: for i in range(len(df)), n = len(df) taken once
RECURSIVE FillGrouped(_, _, _, _, _)
FillGrouped(frame, class_code_col, i, n, prev_row) ==
    IF i >= n THEN frame
    ELSE LET filled == FillRow(frame, class_code_col, i, prev_row)
         IN  FillGrouped(filled, class_code_col, i + 1, n, SomeRow(Iloc(filled, i)))

\* series.replace('', np.nan)
ReplaceEmpty(series) ==
    [k \in 1..Len(series) |-> IF series[k] = <<>> THEN NaN ELSE series[k]]

\* series.fillna(method='ffill')
RECURSIVE ffill(_, _)
ffill(series, k) ==
    IF k > Len(series) THEN series
    ELSE IF k > 1 /\ pd_isna(series[k])
         THEN ffill([series EXCEPT ![k] = series[k - 1]], k + 1)
         ELSE ffill(series, k + 1)

Column(frame, c) == [r \in 1..Len(frame.rows) |-> frame.rows[r][c]]

SetColumn(frame, c, series) ==
    [frame EXCEPT !.rows = [r \in 1..Len(frame.rows) |->
                               [frame.rows[r] EXCEPT ![c] = series[r]]]]

\* lines 126-127
RECURSIVE FillForward(_, _)
FillForward(frame, c) ==
    IF c > Len(frame.columns) THEN frame
    ELSE FillForward(SetColumn(frame, c, ffill(ReplaceEmpty(Column(frame, c)), 1)),
                     c + 1)

\* fill_empty_class_codes reading the previous row as df.iloc[i - 1], which for
\* the first row is the last row of the table
fill_empty_class_codes_wrap(frame, answer) ==
    LET res == ResolveClassCodeCol(frame.columns, answer)
        n   == Len(frame.rows)
    IN  IF res.status # "ok" THEN [status |-> res.status, df |-> frame]
        ELSE IF Truthy(res.col)
             THEN [status |-> "ok",
                   df |-> FillGrouped(frame, res.col, 0, n,
                              IF n > 0 THEN SomeRow(Iloc(frame, n - 1)) ELSE NoRow)]
             ELSE [status |-> "ok", df |-> FillForward(frame, 1)]

\* lines 71-127
fill_empty_class_codes(frame, answer) ==
    LET res == ResolveClassCodeCol(frame.columns, answer)
    IN  IF res.status # "ok" THEN [status |-> res.status, df |-> frame]
        ELSE IF Truthy(res.col)
             THEN [status |-> "ok",
                   df |-> FillGrouped(frame, res.col, 0, Len(frame.rows), NoRow)]
             ELSE [status |-> "ok", df |-> FillForward(frame, 1)]

-----------------------------------------------------------------------------
(* extract_time_and_day: the regular expressions, on characters *)

\* an absent value (None) and a present integer
None == [some |-> FALSE, val |-> 0]

Some(v) == [some |-> TRUE, val |-> v]

EnDash == "EN DASH"

EmDash == "EM DASH"

\* [\-–—]
IsDash(c) == c \in {"-", EnDash, EmDash}

IsAlpha(c) == \E k \in 1..26 : UpperCase[k] = c \/ LowerCase[k] = c

\* \s* from position i: the first position at or after i that holds no blank
RECURSIVE SkipSpaces(_, _)
SkipSpaces(s, i) ==
    IF i <= Len(s) /\ IsSpace(s[i]) THEN SkipSpaces(s, i + 1) ELSE i

\* (am|pm|AM|PM) at position i
MeridiemAt(s, i) ==
    /\ i + 1 <= Len(s)
    /\ <<s[i], s[i + 1]>> \in {<<"a","m">>, <<"p","m">>, <<"A","M">>, <<"P","M">>}

DigitAt(s, i) == i <= Len(s) /\ IsDigit(s[i])

HasDigit(s) == \E k \in 1..Len(s) : IsDigit(s[k])

FirstDigit(s) == CHOOSE k \in 1..Len(s) : IsDigit(s[k]) /\ \A j \in 1..(k - 1) : ~IsDigit(s[j])

\* re.search(r'(\d{1,2}):?(\d{2})?\s*(am|pm|AM|PM)?', s): the groups of the
\* leftmost match; every item after the first digit is optional, so the greedy
\* choice at each item is the match.  i is the first digit, p1 the end of
\* group 1, p2 the position after the colon, p4 the position after the blanks
time_match(s) ==
    Call(LAMBDA i :
      Call(LAMBDA p1 :
        Call(LAMBDA p2 :
          Call(LAMBDA p4 :
                 [g1 |-> SubSeq(s, i, p1 - 1),
                  g2 |-> IF DigitAt(s, p2) /\ DigitAt(s, p2 + 1)
                         THEN SubSeq(s, p2, p2 + 1) ELSE <<>>,
                  g3 |-> IF MeridiemAt(s, p4) THEN SubSeq(s, p4, p4 + 1) ELSE <<>>],
               SkipSpaces(s, IF DigitAt(s, p2) /\ DigitAt(s, p2 + 1)
                             THEN p2 + 2 ELSE p2)),
             IF p1 <= Len(s) /\ s[p1] = ":" THEN p1 + 1 ELSE p1),
           IF DigitAt(s, i + 1) THEN i + 2 ELSE i + 1),
         FirstDigit(s))

\* lines 205-225: extract_time with "pm and hour <= 12"
extract_time_pm12(time_str) ==
    IF pd_isna(time_str) \/ time_str = <<>> THEN None
    ELSE IF ~HasDigit(time_str) THEN None
    ELSE Call(LAMBDA m :
                LET hour   == DigitsValue(m.g1)
                    minute == IF m.g2 # <<>> THEN DigitsValue(m.g2) ELSE 0
                    ampm   == Lower(m.g3)
                    hour24 == IF ampm = <<"p","m">> /\ hour <= 12 THEN hour + 12
                              ELSE IF ampm = <<"a","m">> /\ hour = 12 THEN 0
                              ELSE hour
                IN  Some(hour24 * 100 + minute),
              time_match(time_str))

\* lines 205-225
extract_time(time_str) ==
    IF pd_isna(time_str) \/ time_str = <<>> THEN None
    ELSE IF ~HasDigit(time_str) THEN None
    ELSE Call(LAMBDA m :
                LET hour   == DigitsValue(m.g1)
                    minute == IF m.g2 # <<>> THEN DigitsValue(m.g2) ELSE 0
                    ampm   == Lower(m.g3)
                    hour24 == IF ampm = <<"p","m">> /\ hour < 12 THEN hour + 12
                              ELSE IF ampm = <<"a","m">> /\ hour = 12 THEN 0
                              ELSE hour
                IN  Some(hour24 * 100 + minute),
              time_match(time_str))

\* re.split(r'\s*[\-–—]\s*', s): start is where the current part begins, i the
\* position at which a match is tried
RECURSIVE re_split(_, _, _)
re_split(s, start, i) ==
    IF i > Len(s) THEN <<SubSeq(s, start, Len(s))>>
    ELSE LET j == SkipSpaces(s, i)
         IN  IF j <= Len(s) /\ IsDash(s[j])
             THEN LET k == SkipSpaces(s, j + 1)
                  IN  <<SubSeq(s, start, i - 1)>> \o re_split(s, k, k)
             ELSE re_split(s, start, i + 1)

\* the end (exclusive) of the match of \d{1,2}[:.]?\d{0,2}\s*(am|pm|AM|PM)? that
\* starts at the digit at position i: p1 is the end of the first digits, p2 the
\* position after the separator, p4 the position after the blanks
TimeTokenEnd(s, i) ==
    Call(LAMBDA p1 :
      Call(LAMBDA p2 :
        Call(LAMBDA p4 : IF MeridiemAt(s, p4) THEN p4 + 2 ELSE p4,
             SkipSpaces(s, IF DigitAt(s, p2)
                           THEN (IF DigitAt(s, p2 + 1) THEN p2 + 2 ELSE p2 + 1)
                           ELSE p2)),
           IF p1 <= Len(s) /\ s[p1] \in {":", "."} THEN p1 + 1 ELSE p1),
         IF DigitAt(s, i + 1) THEN i + 2 ELSE i + 1)

\* re.search(r'\d{1,2}[:.]?\d{0,2}\s*(am|pm|AM|PM)?', part) finds a match
HasTimeToken(part) == \E k \in 1..Len(part) : IsDigit(part[k])

\* re.findall of the same pattern: the texts of the successive matches
RECURSIVE re_findall(_, _)
re_findall(s, i) ==
    IF i > Len(s) THEN <<>>
    ELSE IF IsDigit(s[i])
         THEN LET e == TimeTokenEnd(s, i)
              IN  <<SubSeq(s, i, e - 1)>> \o re_findall(s, e)
         ELSE re_findall(s, i + 1)

\* lines 238-241
RECURSIVE TimeParts(_)
TimeParts(parts) ==
    IF parts = <<>> THEN <<>>
    ELSE IF HasTimeToken(Head(parts)) THEN <<Head(parts)>> \o TimeParts(Tail(parts))
    ELSE TimeParts(Tail(parts))

Pair(a, b) == [start |-> a, end |-> b]

\* lines 228-255, producing a start from a single time token
extract_start_end_times_single(period_str) ==
    IF pd_isna(period_str) \/ period_str = <<>> THEN Pair(None, None)
    ELSE LET parts      == re_split(period_str, 1, 1)
             time_parts == TimeParts(parts)
             times      == re_findall(period_str, 1)
         IN  IF Len(parts) >= 2 /\ Len(time_parts) >= 2
             THEN Pair(Call(extract_time, time_parts[1]), Call(extract_time, time_parts[2]))
             ELSE IF Len(times) >= 2
             THEN Pair(Call(extract_time, times[1]), Call(extract_time, times[2]))
             ELSE IF Len(times) >= 1
             THEN Pair(Call(extract_time, times[1]), None)
             ELSE Pair(None, None)

\* lines 228-255
extract_start_end_times(period_str) ==
    IF pd_isna(period_str) \/ period_str = <<>> THEN Pair(None, None)
    ELSE LET parts      == re_split(period_str, 1, 1)
             time_parts == TimeParts(parts)
             times      == re_findall(period_str, 1)
         IN  IF Len(parts) >= 2 /\ Len(time_parts) >= 2
             THEN Pair(Call(extract_time, time_parts[1]), Call(extract_time, time_parts[2]))
             ELSE IF Len(times) >= 2
             THEN Pair(Call(extract_time, times[1]), Call(extract_time, times[2]))
             ELSE Pair(None, None)

\* the dictionary without the key 't'
day_mapping_no_t ==
    << <<<<"m","o">>, 1>>, <<<<"m","o","n">>, 1>>,
       <<<<"m","o","n","d","a","y">>, 1>>, <<<<"m">>, 1>>,
       <<<<"t","u">>, 2>>, <<<<"t","u","e">>, 2>>, <<<<"t","u","e","s">>, 2>>,
       <<<<"t","u","e","s","d","a","y">>, 2>>,
       <<<<"w","e">>, 3>>, <<<<"w","e","d">>, 3>>,
       <<<<"w","e","d","n","e","s","d","a","y">>, 3>>, <<<<"w">>, 3>>,
       <<<<"t","h">>, 4>>, <<<<"t","h","u">>, 4>>, <<<<"t","h","u","r">>, 4>>,
       <<<<"t","h","u","r","s">>, 4>>, <<<<"t","h","u","r","s","d","a","y">>, 4>>,
       <<<<"f","r">>, 5>>, <<<<"f","r","i">>, 5>>,
       <<<<"f","r","i","d","a","y">>, 5>>, <<<<"f">>, 5>>,
       <<<<"s","a">>, 6>>, <<<<"s","a","t">>, 6>>,
       <<<<"s","a","t","u","r","d","a","y">>, 6>>, <<<<"s">>, 6>>,
       <<<<"s","u">>, 7>>, <<<<"s","u","n">>, 7>>,
       <<<<"s","u","n","d","a","y">>, 7>> >>

\* lines 175-183, in the order the dictionary is written
day_mapping ==
    << <<<<"m","o">>, 1>>, <<<<"m","o","n">>, 1>>,
       <<<<"m","o","n","d","a","y">>, 1>>, <<<<"m">>, 1>>,
       <<<<"t","u">>, 2>>, <<<<"t","u","e">>, 2>>, <<<<"t","u","e","s">>, 2>>,
       <<<<"t","u","e","s","d","a","y">>, 2>>, <<<<"t">>, 2>>,
       <<<<"w","e">>, 3>>, <<<<"w","e","d">>, 3>>,
       <<<<"w","e","d","n","e","s","d","a","y">>, 3>>, <<<<"w">>, 3>>,
       <<<<"t","h">>, 4>>, <<<<"t","h","u">>, 4>>, <<<<"t","h","u","r">>, 4>>,
       <<<<"t","h","u","r","s">>, 4>>, <<<<"t","h","u","r","s","d","a","y">>, 4>>,
       <<<<"f","r">>, 5>>, <<<<"f","r","i">>, 5>>,
       <<<<"f","r","i","d","a","y">>, 5>>, <<<<"f">>, 5>>,
       <<<<"s","a">>, 6>>, <<<<"s","a","t">>, 6>>,
       <<<<"s","a","t","u","r","d","a","y">>, 6>>, <<<<"s">>, 6>>,
       <<<<"s","u">>, 7>>, <<<<"s","u","n">>, 7>>,
       <<<<"s","u","n","d","a","y">>, 7>> >>

\* the letters at the start of s, three at most
RECURSIVE LeadingAlpha(_, _)
LeadingAlpha(s, k) ==
    IF k < Len(s) /\ k < 3 /\ IsAlpha(s[k + 1]) THEN LeadingAlpha(s, k + 1) ELSE k

\* re.search(r'^([a-zA-Z]{1,3})\s', s): the length of group 1, 0 for no match
day_match(s) ==
    LET k == LeadingAlpha(s, 0)
    IN  IF k >= 1 /\ k + 1 <= Len(s) /\ IsSpace(s[k + 1]) THEN k ELSE 0

StartsWith(key, prefix) ==
    Len(prefix) <= Len(key) /\ SubSeq(key, 1, Len(prefix)) = prefix

\* lines 194-202: the exact key, else the first key that starts with the token
day_lookup(day_abbr) ==
    LET exact  == {k \in 1..Len(day_mapping) : day_mapping[k][1] = day_abbr}
        prefix == {k \in 1..Len(day_mapping) : StartsWith(day_mapping[k][1], day_abbr)}
    IN  IF exact # {} THEN Some(day_mapping[CHOOSE k \in exact : TRUE][2])
        ELSE IF prefix # {}
        THEN Some(day_mapping[CHOOSE k \in prefix : \A j \in prefix : k <= j][2])
        ELSE None

\* the outcomes of lines 194-202 when the keys of the dictionary come in any
\* order: the exact key decides, else any key that starts with the token can be
\* the first one the loop meets
day_lookup_any(day_abbr) ==
    LET exact  == {k \in 1..Len(day_mapping) : day_mapping[k][1] = day_abbr}
        prefix == {k \in 1..Len(day_mapping) : StartsWith(day_mapping[k][1], day_abbr)}
    IN  IF exact # {} THEN {Some(day_mapping[k][2]) : k \in exact}
        ELSE IF prefix # {} THEN {Some(day_mapping[k][2]) : k \in prefix}
        ELSE {None}

\* the outcomes of lines 186-202 over every order of the dictionary
extract_day_any(period_str) ==
    IF pd_isna(period_str) \/ period_str = <<>> THEN {None}
    ELSE LET k == day_match(period_str)
         IN  IF k = 0 THEN {None}
             ELSE day_lookup_any(Lower(SubSeq(period_str, 1, k)))

\* extract_day that looks the token up as it is written
extract_day_nolower(period_str) ==
    IF pd_isna(period_str) \/ period_str = <<>> THEN None
    ELSE LET k == day_match(period_str)
         IN  IF k = 0 THEN None
             ELSE day_lookup(SubSeq(period_str, 1, k))

\* lines 186-202
extract_day(period_str) ==
    IF pd_isna(period_str) \/ period_str = <<>> THEN None
    ELSE LET k == day_match(period_str)
         IN  IF k = 0 THEN None
             ELSE day_lookup(Lower(SubSeq(period_str, 1, k)))

-----------------------------------------------------------------------------
(* Period Normalizer and the table stages of parse_table *)

\* re.sub(r'\s+', ' ', s)
RECURSIVE CollapseSpaces(_)
CollapseSpaces(s) ==
    IF s = <<>> THEN <<>>
    ELSE IF IsSpace(Head(s)) THEN <<" ">> \o CollapseSpaces(lstrip(s))
    ELSE <<Head(s)>> \o CollapseSpaces(Tail(s))

\* lines 282-289
sanitize_period(period_str) ==
    IF pd_isna(period_str) \/ period_str = <<>> THEN <<>>
    ELSE CollapseSpaces(strip(period_str))

IsAlnum(c) == IsAlpha(c) \/ IsDigit(c)

\* re.sub(r'[\.\/\s\-\:]', '_', s)
Underscored(s) ==
    [k \in 1..Len(s) |->
        IF s[k] \in {".", "/", "-", ":"} \/ IsSpace(s[k]) THEN "_" ELSE s[k]]

\* re.sub(r'[^a-zA-Z0-9_]', '', s)
RECURSIVE KeepWordChars(_)
KeepWordChars(s) ==
    IF s = <<>> THEN <<>>
    ELSE IF IsAlnum(Head(s)) \/ Head(s) = "_"
         THEN <<Head(s)>> \o KeepWordChars(Tail(s))
         ELSE KeepWordChars(Tail(s))

\* convert_to_sql_period that leaves a leading digit as it is
convert_to_sql_period_noprefix(period_str) ==
    IF pd_isna(period_str) \/ period_str = <<>> THEN NaN
    ELSE KeepWordChars(Underscored(period_str))

\* lines 291-306; None is the missing value of the new column
convert_to_sql_period(period_str) ==
    IF pd_isna(period_str) \/ period_str = <<>> THEN NaN
    ELSE LET sql_period == KeepWordChars(Underscored(period_str))
         IN  IF sql_period # <<>> /\ IsDigit(sql_period[1])
             THEN <<"p", "_">> \o sql_period
             ELSE sql_period

S_period == <<"p","e","r","i","o","d">>

\* lines 135-139 and 162-166: the first column whose lower-cased name holds
\* 'period'; col.lower() exists for text labels only
RECURSIVE FindPeriodCol(_, _)
FindPeriodCol(columns, k) ==
    IF k > Len(columns) THEN [status |-> "ok", col |-> NoneLabel]
    ELSE IF columns[k].kind # "str" THEN [status |-> "AttributeError", col |-> NoneLabel]
    ELSE IF Contains(S_period, Lower(columns[k].s))
         THEN [status |-> "ok", col |-> columns[k]]
    ELSE FindPeriodCol(columns, k + 1)

\* df[label] = series: the column is replaced, or added as the last one
Assign(frame, label, series) ==
    IF InSeq(frame.columns, label)
    THEN SetColumn(frame, Position(frame.columns, label), series)
    ELSE [frame EXCEPT
            !.columns = Append(frame.columns, label),
            !.rows = [r \in 1..Len(frame.rows) |-> Append(frame.rows[r], series[r])]]

\* lines 129-153
convert_period_for_sql(frame) ==
    LET res == FindPeriodCol(frame.columns, 1)
    IN  IF res.status # "ok" THEN [status |-> res.status, df |-> frame]
        ELSE IF ~Truthy(res.col) THEN [status |-> "ok", df |-> frame]
        ELSE LET c       == Position(frame.columns, res.col)
                 cleaned == [r \in 1..Len(frame.rows) |->
                                Call(sanitize_period, frame.rows[r][c])]
                 new_col == StrLabel(res.col.s \o <<"_","s","q","l">>)
                 sql     == [r \in 1..Len(frame.rows) |->
                                Call(convert_to_sql_period, cleaned[r])]
             IN  [status |-> "ok",
                  df |-> Assign(SetColumn(frame, c, cleaned), new_col, sql)]

\* an integer, or None, as the cell of a derived column
IntCell(x) == IF x.some THEN <<"int", x.val>> ELSE NaN

L_day_num == StrLabel(<<"d","a","y","_","n","u","m">>)

L_start_time == StrLabel(<<"s","t","a","r","t","_","t","i","m","e">>)

L_end_time == StrLabel(<<"e","n","d","_","t","i","m","e">>)

\* df[l] = series for each of the labels in turn, the series given by row:
\* values[r][j] is the cell of row r for labels[j]; a label the frame has keeps
\* its place, the others are added at the end in the order given
AssignColumns(frame, labels, values) ==
    LET added   == SelectSeq(labels, LAMBDA l : ~InSeq(frame.columns, l))
        columns == frame.columns \o added
    IN  [frame EXCEPT
            !.columns = columns,
            !.rows = [r \in 1..Len(frame.rows) |->
                        [k \in 1..Len(columns) |->
                            IF InSeq(labels, columns[k])
                            THEN values[r][Position(labels, columns[k])]
                            ELSE frame.rows[r][k]]]]

\* lines 258-267 for the cell of one row: day_num, start_time, end_time
ParsedCells(period_str) ==
    <<IntCell(extract_day(period_str)),
      IntCell(extract_start_end_times(period_str).start),
      IntCell(extract_start_end_times(period_str).end)>>

\* extract_time_and_day that stops at a row whose cell holds no pair of times
extract_time_and_day_strict(frame) ==
    LET res == FindPeriodCol(frame.columns, 1)
    IN  IF res.status # "ok" THEN [status |-> res.status, df |-> frame]
        ELSE IF ~Truthy(res.col) THEN [status |-> "ok", df |-> frame]
        ELSE IF \E r \in 1..Len(frame.rows) :
                    ParsedCells(frame.rows[r][Position(frame.columns, res.col)])[2] = NaN
        THEN [status |-> "TypeError", df |-> frame]
        ELSE [status |-> "ok",
              df |-> AssignColumns(frame, <<L_day_num, L_start_time, L_end_time>>,
                         [r \in 1..Len(frame.rows) |->
                             Call(ParsedCells,
                                  frame.rows[r][Position(frame.columns, res.col)])])]

\* lines 155-270
extract_time_and_day(frame) ==
    LET res == FindPeriodCol(frame.columns, 1)
    IN  IF res.status # "ok" THEN [status |-> res.status, df |-> frame]
        ELSE IF ~Truthy(res.col) THEN [status |-> "ok", df |-> frame]
        ELSE [status |-> "ok",
              df |-> AssignColumns(frame, <<L_day_num, L_start_time, L_end_time>>,
                         [r \in 1..Len(frame.rows) |->
                             Call(ParsedCells,
                                  frame.rows[r][Position(frame.columns, res.col)])])]

MaxLenOf(rows) ==
    IF rows = <<>> THEN 0
    ELSE LET L == {Len(rows[r]) : r \in 1..Len(rows)}
         IN  CHOOSE m \in L : \A k \in L : k <= m

\* a row of cells made as long as the frame is wide; the cells it lacks are None
Padded(row, width) == [k \in 1..width |-> IF k <= Len(row) THEN row[k] ELSE NaN]

\* lines 51-55: the frame of the header labels and the rows of cell texts
BuildFrame(headers, rows) ==
    IF rows # <<>> /\ headers # <<>> /\ Len(headers) = Len(rows[1])
    THEN IF MaxLenOf(rows) > Len(headers)
         THEN [status |-> "ValueError",
               df |-> [columns |-> <<>>, index |-> <<>>, rows |-> <<>>]]
         ELSE [status |-> "ok",
               df |-> [columns |-> [k \in 1..Len(headers) |-> StrLabel(headers[k])],
                       index   |-> RangeIndex(Len(rows)),
                       rows    |-> [r \in 1..Len(rows) |-> Padded(rows[r], Len(headers))]]]
    ELSE [status |-> "ok",
          df |-> [columns |-> [k \in 1..MaxLenOf(rows) |-> IntLabel(k - 1)],
                  index   |-> RangeIndex(Len(rows)),
                  rows    |-> [r \in 1..Len(rows) |-> Padded(rows[r], MaxLenOf(rows))]]]

-----------------------------------------------------------------------------
(* Tables the extractor can hand over *)

S_code == <<"c","o","d","e">>
S_x == <<"x">>
S_Room == <<"R","o","o","m">>
S_ClassCode == <<"C","l","a","s","s"," ","C","o","d","e">>

\* header lists: a name match in the first column, in the second column,
\* no match (the first label empty), one column, no column
HeaderLists ==
    { <<StrLabel(S_code), StrLabel(S_x)>>,
      <<StrLabel(S_Room), StrLabel(S_ClassCode)>>,
      <<StrLabel(<<>>), StrLabel(S_Room)>>,
      <<StrLabel(S_Room)>>,
      <<StrLabel(S_ClassCode)>>,
      <<>> }

\* the text of a non-empty cell: every cell has its own
CellText(r, c) == <<LowerCase[c], Digits[r]>>

\* the example of the specification: A, 1 / '', '' / B, 2
ExampleFrame ==
    [columns |-> <<StrLabel(S_code), StrLabel(S_x)>>,
     index   |-> <<0, 1, 2>>,
     rows    |-> << <<<<"A">>, <<"1">>>>, <<<<>>, <<>>>>, <<<<"B">>, <<"2">>>> >>]

\* a cell is the empty text, missing, or its own text
CellOf(p, r, c) == IF p = 0 THEN <<>> ELSE IF p = 1 THEN NaN ELSE CellText(r, c)

\* the rows given by a pattern p: p[r][c] says which of the three the cell is
RowsOf(p, n, nc) == [r \in 1..n |-> [c \in 1..nc |-> CellOf(p[r][c], r, c)]]

Frame(columns, rows) ==
    [columns |-> columns, index |-> RangeIndex(Len(rows)), rows |-> rows]

Answers == {EOF, Line(<<"-","1">>), Line(<<"0">>), Line(<<"1">>), Line(<<"x">>)}

-----------------------------------------------------------------------------

\* no cell is being parsed
NoCell ==
    /\ cell = <<>>
    /\ time_val = None
    /\ day_num = None
    /\ start_time = None
    /\ end_time = None
    /\ sql_token = NaN

NoHtml == [headers |-> <<>>, rows |-> <<>>]

Init ==
    /\ pc = "input"
    /\ status = "ok"
    /\ html = NoHtml
    /\ \/ df0 = ExampleFrame
       \/ \E h \in HeaderLists, n \in 0..MaxRows :
             \E p \in [1..n -> [1..Len(h) -> 0..2]] :
                df0 = Frame(h, RowsOf(p, n, Len(h)))
    /\ df = df0
    /\ inp \in Answers
    /\ FindClassCodeCol(df0.columns, 1).col # NoneLabel => inp = EOF
    /\ NoCell

\* fill_empty_class_codes(df) on the table as handed over
Fill ==
    /\ pc = "input"
    /\ LET res == fill_empty_class_codes(df, inp)
       IN  /\ df' = res.df
           /\ status' = res.status
    /\ pc' = "filled"
    /\ UNCHANGED <<html, df0, inp>>
    /\ UNCHANGED cellVars

\* fill_empty_class_codes(df) once more, on its own output
Refill ==
    /\ pc = "filled"
    /\ status = "ok"
    /\ LET res == fill_empty_class_codes(df, inp)
       IN  /\ df' = res.df
           /\ status' = res.status
    /\ pc' = "refilled"
    /\ UNCHANGED <<html, df0, inp>>
    /\ UNCHANGED cellVars

Next == Fill \/ Refill

Spec == Init /\ [][Next]_vars

-----------------------------------------------------------------------------
(* Group Reconstructor: properties of fill_empty_class_codes *)

MaxOf(S) == CHOOSE m \in S : \A k \in S : k <= m

NRows == Len(df0.rows)

NCols == Len(df0.columns)

\* no column name holds a synonym of the grouping key: all six hold "code"
NoSynonym == \A k \in 1..NCols : ~Contains(S_code, Lower(df0.columns[k].s))

\* the answer names no column: the "none" signal, an index out of range, no number
AnswersNone ==
    \/ inp \in {Line(<<"-","1">>), Line(<<"x">>)}
    \/ inp = Line(<<"0">>) /\ NCols = 0
    \/ inp = Line(<<"1">>) /\ NCols <= 1

\* the grouping column the run used, as a position; 0 when there was none
GroupPos ==
    LET res == ResolveClassCodeCol(df0.columns, inp)
    IN  IF res.status = "ok" /\ Truthy(res.col) THEN Position(df0.columns, res.col) ELSE 0

FirstRunDone == pc = "filled" /\ status = "ok"

SameShape ==
    /\ df.columns = df0.columns
    /\ df.index = df0.index
    /\ Len(df.rows) = NRows
    /\ \A r \in 1..Len(df.rows) : Len(df.rows[r]) = NCols

\* row r of the input with its empty cells taken from the row src
FilledFrom(r, src) ==
    [c \in 1..NCols |-> IF IsEmptyCell(df0.rows[r][c]) THEN src[c] ELSE df0.rows[r][c]]

\* the rows before r whose cell in column g is not empty in the input
HeadsBefore(r, g) == {j \in 1..(r - 1) : ~IsEmptyCell(df0.rows[j][g])}

\* two rows with the same cells, an empty text and a missing value counting as
\* the same empty cell
SameCells(a, b) ==
    /\ Len(a) = Len(b)
    /\ \A c \in 1..Len(a) : a[c] = b[c] \/ (IsEmptyCell(a[c]) /\ IsEmptyCell(b[c]))

\* C1 as stated: a row whose grouping cell is empty is filled from the nearest
\* preceding row with a non-empty grouping cell, as that row was read, and is left
\* unchanged when there is no such row.
GroupFillFromGroupHead ==
    LET g == GroupPos
    IN  (FirstRunDone /\ g # 0) =>
            /\ SameShape
            /\ \A r \in 1..NRows :
                  IsEmptyCell(df0.rows[r][g]) =>
                      SameCells(df.rows[r],
                                IF HeadsBefore(r, g) = {} THEN df0.rows[r]
                                ELSE FilledFrom(r, df0.rows[MaxOf(HeadsBefore(r, g))]))

ExampleFilled ==
    << <<<<"A">>, <<"1">>>>, <<<<"A">>, <<"1">>>>, <<<<"B">>, <<"2">>>> >>

\* C1 (amended): with a grouping column, rows are processed in order; a row whose
\* grouping cell is empty takes the grouping cell and its other empty cells from
\* the row immediately before it as that row stands after its own fill, keeps its
\* non-empty cells, and the first row and every row with a non-empty grouping cell
\* are unchanged; the example table becomes A,1 / A,1 / B,2.
GroupFillFromPreviousRow ==
    LET g == GroupPos
    IN  (FirstRunDone /\ g # 0) =>
            /\ SameShape
            /\ \A r \in 1..NRows :
                  df.rows[r] = IF r > 1 /\ IsEmptyCell(df0.rows[r][g])
                               THEN FilledFrom(r, df.rows[r - 1])
                               ELSE df0.rows[r]
            /\ df0 = ExampleFrame => df.rows = ExampleFilled

\* a third row filled from a second row that was itself filled with a value the
\* group head does not have
GroupFillWitness ==
    /\ FirstRunDone /\ NRows >= 3 /\ GroupPos # 0
    /\ ~IsEmptyCell(df0.rows[1][GroupPos])
    /\ IsEmptyCell(df0.rows[2][GroupPos])
    /\ IsEmptyCell(df0.rows[3][GroupPos])
    /\ \E c \in 1..NCols :
          /\ IsEmptyCell(df0.rows[1][c])
          /\ IsEmptyCell(df0.rows[3][c])
          /\ ~IsEmptyCell(df0.rows[2][c])
          /\ df.rows[3][c] = df0.rows[2][c]

\* C2: a second run of fill_empty_class_codes on its own output changes no cell.
Idempotent == [][pc = "filled" => (df' = df /\ status' = "ok")]_vars

IdempotentWitness == pc = "refilled" /\ status = "ok" /\ df # df0 /\ NRows >= 3

\* C3: the output has the rows and the ordered columns of the input, in both
\* branches; only cell values differ.
ShapePreserved == pc # "input" => SameShape

ShapeWitness ==
    /\ FirstRunDone /\ NRows >= 2 /\ NCols = 2 /\ df # df0
    /\ \E r \in 1..NRows : df.rows[r] # df0.rows[r]

\* C4 as stated: every cell of the first row has the same value after the run.
FirstRowUnchanged ==
    (pc # "input" /\ status = "ok" /\ NRows >= 1) => df.rows[1] = df0.rows[1]

\* C4 (amended): the first row is never filled: each of its non-empty cells keeps
\* its value and each of its empty cells stays empty (in the forward-fill branch
\* an empty text of the first row becomes a missing value); with a grouping
\* column the first row is unchanged.
FirstRowNeverFilled ==
    (pc # "input" /\ status = "ok" /\ NRows >= 1) =>
        /\ \A c \in 1..NCols :
              IF IsEmptyCell(df0.rows[1][c])
              THEN IsEmptyCell(df.rows[1][c])
              ELSE df.rows[1][c] = df0.rows[1][c]
        /\ GroupPos # 0 => df.rows[1] = df0.rows[1]

FirstRowWitness ==
    /\ FirstRunDone /\ NRows >= 2
    /\ \E c \in 1..NCols :
          /\ IsEmptyCell(df0.rows[1][c])
          /\ ~IsEmptyCell(df0.rows[NRows][c])
          /\ IsEmptyCell(df.rows[1][c])
    /\ \E r \in 2..NRows : df.rows[r] # df0.rows[r]

\* the rows before r whose cell in column c is not empty in the input
FilledBefore(r, c) == {j \in 1..(r - 1) : ~IsEmptyCell(df0.rows[j][c])}

ForwardFilled ==
    /\ SameShape
    /\ \A r \in 1..NRows : \A c \in 1..NCols :
          IF ~IsEmptyCell(df0.rows[r][c]) THEN df.rows[r][c] = df0.rows[r][c]
          ELSE IF FilledBefore(r, c) = {} THEN IsEmptyCell(df.rows[r][c])
          ELSE df.rows[r][c] = df0.rows[MaxOf(FilledBefore(r, c))][c]

\* C5: when no name matches and the answer names no column, every column is
\* forward-filled on its own: an empty cell takes the nearest preceding non-empty
\* value of its column, stays empty when there is none, and non-empty cells keep
\* their value.
ForwardFillWhenUnresolved ==
    (pc # "input" /\ NoSynonym /\ AnswersNone) => (status = "ok" /\ ForwardFilled)

ForwardFillWitness ==
    /\ FirstRunDone /\ NoSynonym /\ AnswersNone /\ NRows >= 3 /\ NCols >= 1
    /\ \E c \in 1..NCols :
          /\ ~IsEmptyCell(df0.rows[1][c])
          /\ df0.rows[2][c] = <<>>
          /\ df0.rows[3][c] = NaN
          /\ df.rows[3][c] = df0.rows[1][c]

\* C6: with no synonym in any column name and no answer to read, the grouping
\* column is "not found": the run does not fail and the table is forward-filled.
NotFoundWithoutInput ==
    (pc # "input" /\ NoSynonym /\ inp = EOF) => (status = "ok" /\ ForwardFilled)

-----------------------------------------------------------------------------
(* parse_table: one HTML table through the stages of lines 51-64 *)

MaxHtmlRows == 2

S_CS101 == <<"C","S","1","0","1">>

S_Period == <<"P","e","r","i","o","d">>

S_ThCell ==
    <<"T","h"," "," ","0","9",":","3","0","A","M"," ","-"," ","1","2",":","1","5","P","M">>

S_MCell == <<"M"," ","1",":","0","0"," ","-"," ","2",":","1","5">>

\* header rows: code and period, period only, no grouping key, no header cell
HtmlHeaders ==
    { <<S_ClassCode, S_Period>>, <<S_Period>>, <<S_Room, S_Period>>, <<>> }

\* data rows of no, one, two and three cells
HtmlRows ==
    { <<>>, <<S_CS101>>, <<S_CS101, S_ThCell>>, <<<<>>, S_MCell>>, <<<<>>, <<>>>>,
      <<S_CS101, S_ThCell, S_x>> }

EmptyFrame == [columns |-> <<>>, index |-> <<>>, rows |-> <<>>]

InitTable ==
    /\ pc = "html"
    /\ status = "ok"
    /\ \E h \in HtmlHeaders, n \in 0..MaxHtmlRows :
          \E rs \in [1..n -> HtmlRows] :
             \* lines 38-44: with no header cell the first <tr> is the first data row
             /\ (h = <<>> /\ n > 0) => rs[1] = <<>>
             /\ html = [headers |-> h, rows |-> rs]
    /\ df0 = EmptyFrame
    /\ df = EmptyFrame
    /\ inp \in {EOF, Line(<<"-","1">>), Line(<<"0">>)}
    /\ NoCell

\* lines 51-55
MakeFrame ==
    /\ pc = "html"
    /\ LET res == BuildFrame(html.headers, html.rows)
       IN  /\ df' = res.df
           /\ df0' = res.df
           /\ status' = res.status
    /\ pc' = "frame"
    /\ UNCHANGED <<html, inp>>
    /\ UNCHANGED cellVars

\* line 58
FillStage ==
    /\ pc = "frame"
    /\ status = "ok"
    /\ LET res == fill_empty_class_codes(df, inp)
       IN  /\ df' = res.df
           /\ status' = res.status
    /\ pc' = "filled"
    /\ UNCHANGED <<html, df0, inp>>
    /\ UNCHANGED cellVars

\* line 61
ConvertStage ==
    /\ pc = "filled"
    /\ status = "ok"
    /\ LET res == convert_period_for_sql(df)
       IN  /\ df' = res.df
           /\ status' = res.status
    /\ pc' = "converted"
    /\ UNCHANGED <<html, df0, inp>>
    /\ UNCHANGED cellVars

\* line 64
ExtractStage ==
    /\ pc = "converted"
    /\ status = "ok"
    /\ LET res == extract_time_and_day(df)
       IN  /\ df' = res.df
           /\ status' = res.status
    /\ pc' = "done"
    /\ UNCHANGED <<html, df0, inp>>
    /\ UNCHANGED cellVars

NextTable == MakeFrame \/ FillStage \/ ConvertStage \/ ExtractStage

SpecTable == InitTable /\ [][NextTable]_vars

-----------------------------------------------------------------------------
(* Schedule Field Parser: the functions of extract_time_and_day on one cell *)

\* the characters of the short texts
Alphabet == {"1", "2", ":", "-", " ", "p", "m", "M"}

\* every text of at most MaxLen characters of Alphabet
ShortTexts == UNION {[1..n -> Alphabet] : n \in 0..MaxLen}

\* the parts of a time token: the hour as written and its value
Hours ==
    { [t |-> <<"0">>, v |-> 0], [t |-> <<"1">>, v |-> 1], [t |-> <<"9">>, v |-> 9],
      [t |-> <<"0","9">>, v |-> 9], [t |-> <<"1","1">>, v |-> 11],
      [t |-> <<"1","2">>, v |-> 12], [t |-> <<"1","3">>, v |-> 13],
      [t |-> <<"2","5">>, v |-> 25] }

\* the minute as written (after a colon, or directly after a two-digit hour)
Minutes ==
    { [t |-> <<>>, v |-> 0], [t |-> <<":","0","0">>, v |-> 0],
      [t |-> <<":","1","5">>, v |-> 15], [t |-> <<":","3","0">>, v |-> 30],
      [t |-> <<":","9","9">>, v |-> 99], [t |-> <<"3","0">>, v |-> 30] }

Gaps == {<<>>, <<" ">>}

\* the spellings the pattern names, and the mixed ones
PlainMeridiems == {<<"a","m">>, <<"p","m">>, <<"A","M">>, <<"P","M">>}

MixedMeridiems == {<<"A","m">>, <<"a","M">>, <<"P","m">>, <<"p","M">>}

Token(h, m, g, mer) == h.t \o m.t \o g \o mer

WellFormed(h, m) == Head(m.t \o <<":">>) = ":" \/ Len(h.t) = 2

Tokens ==
    {Token(h, m, g, mer) :
        h \in Hours, m \in Minutes, g \in Gaps,
        mer \in PlainMeridiems \cup MixedMeridiems \cup {<<>>}}

StartTokens ==
    {Token(h, m, <<>>, mer) :
        h \in {x \in Hours : x.v \in {9, 12}}, m \in {x \in Minutes : x.v \in {0, 30}},
        mer \in PlainMeridiems \cup MixedMeridiems \cup {<<>>}}

EndTokens ==
    {<<"1","2",":","1","5">> \o g \o mer :
        g \in Gaps, mer \in PlainMeridiems \cup MixedMeridiems \cup {<<>>}}

DayTokens == {<<>>, <<"T","h"," ">>, <<"M"," ">>}

Delimiters == {<<"-">>, <<" ","-"," ">>, <<" ",EnDash," ">>, <<EmDash>>, <<" ">>}

Example1 ==
    <<"T","h"," ","0","9",":","3","0","A","M"," ","-"," ","1","2",":","1","5","P","M">>

Example2 == <<"M"," ","1",":","0","0"," ","-"," ","2",":","1","5">>

ScheduleCells ==
    {Example1, Example2} \cup
    {d \o a \o x \o b : d \in DayTokens, a \in StartTokens, x \in Delimiters, b \in EndTokens}

CellTexts == ShortTexts \cup Tokens \cup ScheduleCells \cup {NaN}

InitParse ==
    /\ pc = "cell"
    /\ status = "ok"
    /\ html = NoHtml
    /\ df0 = [columns |-> <<>>, index |-> <<>>, rows |-> <<>>]
    /\ df = df0
    /\ inp = EOF
    /\ cell \in CellTexts
    /\ time_val = None
    /\ day_num = None
    /\ start_time = None
    /\ end_time = None
    /\ sql_token = NaN

\* extract_time on the text
ExtractTime ==
    /\ pc = "cell"
    /\ time_val' = extract_time(cell)
    /\ pc' = "time"
    /\ UNCHANGED <<status, cell, day_num, start_time, end_time, sql_token>>
    /\ UNCHANGED tableVars

\* lines 258-267 for one row: extract_day and extract_start_end_times
ExtractTimeAndDay ==
    /\ pc = "cell"
    /\ day_num' = extract_day(cell)
    /\ LET r == extract_start_end_times(cell)
       IN  /\ start_time' = r.start
           /\ end_time' = r.end
    /\ pc' = "parsed"
    /\ UNCHANGED <<status, cell, time_val, sql_token>>
    /\ UNCHANGED tableVars

S_M_1_2 == <<"M", " ", "1", "-", "2">>

\* extract_time_and_day on a table of two rows: a text of at most MaxLen
\* characters (or the missing cell), then 'M 1-2'
ExtractColumn ==
    /\ pc = "cell"
    /\ Len(cell) <= MaxLen
    /\ LET res == extract_time_and_day(
                      Frame(<<StrLabel(S_Period)>>, <<<<cell>>, <<S_M_1_2>>>>))
       IN  /\ df' = res.df
           /\ status' = res.status
    /\ pc' = "column"
    /\ UNCHANGED <<html, df0, inp>>
    /\ UNCHANGED cellVars

NextParse == ExtractTime \/ ExtractTimeAndDay \/ ExtractColumn

SpecParse == InitParse /\ [][NextParse]_vars

-----------------------------------------------------------------------------
(* Schedule Field Parser: properties *)

\* the hour of the 24-hour clock for an hour as written and a meridiem
Hour24(h, mer) ==
    IF Lower(mer) = <<"p","m">> /\ h < 12 THEN h + 12
    ELSE IF Lower(mer) = <<"a","m">> /\ h = 12 THEN 0
    ELSE h

AfterDigit(s, i) ==
    \E k \in 1..(i - 1) :
        IsDigit(s[k]) /\ \A j \in (k + 1)..(i - 1) : IsSpace(s[j])

\* position i is in an am/pm token, in any letter case, that follows a time
InMeridiem(s, i) ==
    \/ /\ i + 1 <= Len(s)
       /\ Lower(<<s[i], s[i + 1]>>) \in {<<"a","m">>, <<"p","m">>}
       /\ AfterDigit(s, i)
    \/ /\ i > 1
       /\ Lower(<<s[i - 1], s[i]>>) \in {<<"a","m">>, <<"p","m">>}
       /\ AfterDigit(s, i - 1)

\* the text with its am/pm tokens in lower case
LowerMeridiems(s) ==
    [i \in 1..Len(s) |-> IF InMeridiem(s, i) THEN LowerChar(s[i]) ELSE s[i]]

\* C9: the meridiem is recognised in any letter case: a cell and the cell that
\* differs from it only in the letter case of its am/pm tokens have the same
\* start_time and end_time.
MeridiemAnyCase ==
    (pc = "parsed" /\ cell # NaN) =>
        extract_start_end_times(LowerMeridiems(cell)) = Pair(start_time, end_time)

\* the time tokens each strategy finds
SplitTokens(s) == TimeParts(re_split(s, 1, 1))

ScanTokens(s) == re_findall(s, 1)

DigitCount(s) == Cardinality({k \in 1..Len(s) : IsDigit(s[k])})

\* C10: fewer than two time tokens by the split and by the scan gives no start
\* and no end; in every outcome start_time is present exactly when end_time is;
\* a text with a single digit has neither.
BothOrNeither ==
    pc = "parsed" =>
        /\ start_time.some <=> end_time.some
        /\ (cell # NaN /\ Len(SplitTokens(cell)) < 2 /\ Len(ScanTokens(cell)) < 2) =>
              (start_time = None /\ end_time = None)
        /\ (cell # NaN /\ DigitCount(cell) <= 1) => (start_time = None /\ end_time = None)
        /\ cell = NaN => (start_time = None /\ end_time = None)

\* one time token with a meridiem and a delimiter, and nothing after it
BothOrNeitherWitness ==
    /\ pc = "parsed"
    /\ cell = <<"1","2","p","m">>
    /\ start_time = None /\ end_time = None

-----------------------------------------------------------------------------
(* parse_table: properties *)

\* the header labels are not as many as the cells of the first data row
ShapeMismatch == html.rows # <<>> /\ Len(html.headers) # Len(html.rows[1])

Positional(frame) == \A k \in 1..Len(frame.columns) : frame.columns[k] = IntLabel(k - 1)

\* C7: on a header/row-length mismatch parse_table builds the table with
\* positional columns and does not raise, and column resolution and group fill,
\* period normalisation and schedule parsing all complete on it without raising.
PositionalTableCompletes ==
    ShapeMismatch =>
        /\ status = "ok"
        /\ pc # "html" => Positional(df)

-----------------------------------------------------------------------------
(* Period Normalizer: the token of one cell, and the period column of a table
   of one row *)

PeriodAlphabet == {"9", "a", "_", ".", "/", " ", "-", ":", "("}

S_0930_1215 == <<"0","9",":","3","0","-","1","2",":","1","5">>

\* every text of at most MaxLen characters, the examples, a dash that is not
\* ASCII, and the missing cell
PeriodTexts ==
    UNION {[1..n -> PeriodAlphabet] : n \in 0..MaxLen}
        \cup {S_0930_1215, Example1, <<"9", EnDash, "1", "0">>, NaN}

InitPeriod ==
    /\ pc = "period"
    /\ status = "ok"
    /\ html = NoHtml
    /\ cell \in PeriodTexts
    /\ df0 = Frame(<<StrLabel(S_Period)>>, <<<<cell>>>>)
    /\ df = df0
    /\ inp = EOF
    /\ time_val = None
    /\ day_num = None
    /\ start_time = None
    /\ end_time = None
    /\ sql_token = NaN

\* convert_to_sql_period on the text
ConvertToSqlPeriod ==
    /\ pc = "period"
    /\ sql_token' = convert_to_sql_period(cell)
    /\ pc' = "token"
    /\ UNCHANGED <<status, cell, time_val, day_num, start_time, end_time>>
    /\ UNCHANGED tableVars

\* convert_period_for_sql on the table whose period column holds the text
ConvertPeriodForSql ==
    /\ pc = "period"
    /\ LET res == convert_period_for_sql(df)
       IN  /\ df' = res.df
           /\ status' = res.status
    /\ pc' = "normalized"
    /\ UNCHANGED <<html, df0, inp>>
    /\ UNCHANGED cellVars

NextPeriod == ConvertToSqlPeriod \/ ConvertPeriodForSql

SpecPeriod == InitPeriod /\ [][NextPeriod]_vars

-----------------------------------------------------------------------------
(* Period Normalizer: properties *)

ReplacedChars == {".", "/", " ", "-", ":"}

DigitChars == {Digits[k] : k \in 1..10}

WordChars ==
    {UpperCase[k] : k \in 1..26} \cup {LowerCase[k] : k \in 1..26}
        \cup DigitChars \cup {"_"}

\* the token of a text that is not empty
Derived(text) ==
    LET mapped == [k \in 1..Len(text) |->
                      IF text[k] \in ReplacedChars THEN "_" ELSE text[k]]
        kept   == SelectSeq(mapped, LAMBDA c : c \in WordChars)
    IN  IF kept # <<>> /\ kept[1] \in DigitChars THEN <<"p", "_">> \o kept ELSE kept

TokenOf(text, tok) ==
    IF text = NaN \/ text = <<>> THEN tok = NaN
    ELSE /\ tok = Derived(text)
         /\ \A k \in 1..Len(tok) : tok[k] \in WordChars
         /\ tok # <<>> => tok[1] \notin DigitChars

\* C11: the empty and the missing text have no token; otherwise each period,
\* slash, space, hyphen and colon becomes an underscore, every other character
\* outside [A-Za-z0-9_] is removed and 'p_' is put before a leading digit, so a
\* token holds only characters of [A-Za-z0-9_] and does not begin with a digit;
\* the token of '09:30-12:15' begins with 'p_'.
TokenDerivation ==
    /\ pc = "token" => TokenOf(cell, sql_token)
    /\ pc = "normalized" =>
          /\ status = "ok"
          /\ Len(df.columns) = 2
          /\ TokenOf(df.rows[1][1], df.rows[1][2])
    /\ (pc = "token" /\ cell = S_0930_1215) => SubSeq(sql_token, 1, 2) = <<"p", "_">>

TokenDerivationWitness ==
    /\ pc = "token"
    /\ cell = S_0930_1215
    /\ sql_token = <<"p","_","0","9","_","3","0","_","1","2","_","1","5">>

-----------------------------------------------------------------------------
(* Day extraction: the day of one cell *)

MaxWord == 3

DayLetters == {"m", "o", "n", "t", "u", "e", "h", "s", "a", "x", "T"}

\* every word of at most MaxWord letters
DayWords == UNION {[1..n -> DayLetters] : n \in 1..MaxWord}

\* what follows the word: nothing, a blank, a tab, a digit, or a time
DayTails == {<<>>, <<" ">>, <<"\t", "9">>, <<"9">>, <<" ", "9", "A", "M">>}

S_Tu == <<"T","u"," ","9","A","M","-","1","0","A","M">>

S_Tue == <<"T","u","e"," ","9","A","M","-","1","0","A","M">>

S_Tues == <<"T","u","e","s"," ","9","A","M","-","1","0","A","M">>

DayExamples ==
    { S_Tu, S_Tue, S_Tues, Example1, Example2,
      <<"W","e","d"," ","9">>, <<"F","R","I"," ","9">>, <<"f"," ","9">>,
      <<"T","h","u","r","s","d","a","y"," ","9">>,
      <<"9","A","M","-","1","0","A","M">>, <<" ","T","u"," ","9">>,
      <<>>, NaN }

DayTexts == {w \o t : w \in DayWords, t \in DayTails} \cup DayExamples

InitDay ==
    /\ pc = "text"
    /\ status = "ok"
    /\ html = NoHtml
    /\ df0 = EmptyFrame
    /\ df = EmptyFrame
    /\ inp = EOF
    /\ cell \in DayTexts
    /\ time_val = None
    /\ day_num = None
    /\ start_time = None
    /\ end_time = None
    /\ sql_token = NaN

\* extract_day on the text, the dictionary in the order it is written
ExtractDay ==
    /\ pc = "text"
    /\ day_num' = extract_day(cell)
    /\ pc' = "day"
    /\ UNCHANGED <<status, cell, time_val, start_time, end_time, sql_token>>
    /\ UNCHANGED tableVars

\* extract_day on the text, the dictionary in any order
ExtractDayAnyOrder ==
    /\ pc = "text"
    /\ day_num' \in extract_day_any(cell)
    /\ pc' = "anyorder"
    /\ UNCHANGED <<status, cell, time_val, start_time, end_time, sql_token>>
    /\ UNCHANGED tableVars

NextDay == ExtractDay \/ ExtractDayAnyOrder

SpecDay == InitDay /\ [][NextDay]_vars

-----------------------------------------------------------------------------
(* Day extraction: properties *)

Letters == {UpperCase[k] : k \in 1..26} \cup {LowerCase[k] : k \in 1..26}

Blanks == {" ", "\t", "\n"}

\* the lengths n of a leading run of 1-3 letters that a blank follows
LeadingRuns(s) ==
    {n \in 1..3 : /\ n + 1 <= Len(s)
                  /\ \A k \in 1..n : s[k] \in Letters
                  /\ s[n + 1] \in Blanks}

\* the ordinals of the keys equal to tok, and the places of the keys that
\* start with it
KeyOrdinals(tok) ==
    {day_mapping[k][2] : k \in {j \in 1..Len(day_mapping) : day_mapping[j][1] = tok}}

KeysWithPrefix(tok) ==
    {k \in 1..Len(day_mapping) :
        /\ Len(tok) <= Len(day_mapping[k][1])
        /\ \A i \in 1..Len(tok) : day_mapping[k][1][i] = tok[i]}

DayOfToken(tok) ==
    IF KeyOrdinals(tok) # {} THEN Some(CHOOSE d \in KeyOrdinals(tok) : TRUE)
    ELSE IF KeysWithPrefix(tok) # {}
    THEN Some(day_mapping[CHOOSE k \in KeysWithPrefix(tok) :
                              \A j \in KeysWithPrefix(tok) : k <= j][2])
    ELSE None

DayOf(s) ==
    IF s = NaN \/ LeadingRuns(s) = {} THEN None
    ELSE DayOfToken(Lower(SubSeq(s, 1, CHOOSE n \in LeadingRuns(s) : TRUE)))

\* C12: the day comes from a leading run of 1-3 letters followed by whitespace,
\* in lower case: the ordinal (1..7) of the key it equals, else of the first key
\* it is a prefix of, else absent; no such token, no day. 'Tu 9AM-10AM' and
\* 'Tue 9AM-10AM' give 2, 'Th 09:30AM - 12:15PM' gives 4, 'M 1:00 - 2:15' gives 1.
DayFromLeadingToken ==
    pc = "day" =>
        /\ day_num = DayOf(cell)
        /\ day_num.some => day_num.val \in 1..7
        /\ (cell # NaN /\ LeadingRuns(cell) = {}) => day_num = None
        /\ cell \in {S_Tu, S_Tue} => day_num = Some(2)
        /\ cell = Example1 => day_num = Some(4)
        /\ cell = Example2 => day_num = Some(1)

DayFromLeadingTokenWitness ==
    /\ pc = "day"
    /\ \/ cell = S_Tue /\ day_num = Some(2)
       \/ cell = S_Tues /\ day_num = None

-----------------------------------------------------------------------------
(* Schedule Field Parser: every cell has an outcome *)

\* absent, or a number
Optional(x) == x = None \/ (x.some /\ x.val \in Nat)

\* the same for the cell of a derived column
OptionalCell(c) == c = NaN \/ (Len(c) = 2 /\ c[1] = "int" /\ c[2] \in Nat)

\* C13: for every cell text, the empty and the missing one and malformed text
\* included, the day, the start and the end each come out as a value or as
\* absent, nothing is raised and the next row is processed; for the empty and
\* the missing text all three are absent.
ParserTotal ==
    /\ pc = "parsed" =>
          /\ Optional(day_num) /\ Optional(start_time) /\ Optional(end_time)
          /\ cell \in {<<>>, NaN} =>
                (day_num = None /\ start_time = None /\ end_time = None)
    /\ pc = "column" =>
          /\ status = "ok"
          /\ df.columns = <<StrLabel(S_Period), L_day_num, L_start_time, L_end_time>>
          /\ Len(df.rows) = 2
          /\ df.rows[1][1] = cell
          /\ \A k \in 2..4 : OptionalCell(df.rows[1][k])
          /\ cell \in {<<>>, NaN} => \A k \in 2..4 : df.rows[1][k] = NaN
          /\ df.rows[2] = <<S_M_1_2, <<"int", 1>>, <<"int", 100>>, <<"int", 200>>>>

\* a text with no day and no time, and the row after it
ParserTotalWitness ==
    /\ pc = "column"
    /\ status = "ok"
    /\ cell = <<"-", ":", "p", "m">>
    /\ \A k \in 2..4 : df.rows[1][k] = NaN
    /\ df.rows[2][3] = <<"int", 100>>

-----------------------------------------------------------------------------
(* Day extraction: the order of the dictionary *)

\* every prefix of one to three letters of a key is a key
PrefixesAreKeys ==
    \A k \in 1..Len(day_mapping) : \A n \in 1..3 :
        n <= Len(day_mapping[k][1]) =>
            KeyOrdinals(SubSeq(day_mapping[k][1], 1, n)) # {}

\* the leading token of a text that has one, in lower case
TokenOfText(s) == Lower(SubSeq(s, 1, CHOOSE n \in LeadingRuns(s) : TRUE))

\* C14: every token of 1-3 lower-case letters that is a prefix of a key of
\* day_mapping is a key, so the loop over the prefixes never decides: in every
\* order of the dictionary the day of a text is the one found in the order as
\* written, the ordinal of the key equal to the token, or absent.
DayOrderIndependent ==
    /\ PrefixesAreKeys
    /\ pc = "anyorder" =>
          /\ day_num = extract_day(cell)
          /\ day_num.some =>
                /\ cell # NaN /\ LeadingRuns(cell) # {}
                /\ KeyOrdinals(TokenOfText(cell)) = {day_num.val}

\* 't' begins the keys of Tuesday and of Thursday, and is a key of Tuesday
DayOrderIndependentWitness ==
    /\ pc = "anyorder"
    /\ cell = <<"T", " ", "9", "A", "M">>
    /\ day_num = Some(2)

====
